---- MODULE Spec2Model ----
(***************************************************************************)
(* Client-side orchestration layer of the productivity dashboard           *)
(* (frontend/src/App.jsx): the notification feed, the command dispatcher   *)
(* with its two delayed refreshes, the resource aggregator with its        *)
(* per-collection pagination, the chat session and voice capture.          *)
(*                                                                         *)
(* React state is modelled as variables holding the last value set.  A     *)
(* handler closes over the state of the render it was created in: an       *)
(* asynchronous handler, a timer callback or a promise continuation keeps  *)
(* using the `notifications` value captured when the handler was invoked   *)
(* (field `snap` of the in-flight records below).  Glyphs that prefix the  *)
(* notification messages are written as ASCII tags.                        *)
(***************************************************************************)
EXTENDS Integers, Sequences, FiniteSets, TLC

VARIABLES
  now,            \* Date.now(), in milliseconds
  mounted,        \* the mount effect has run
  storedAuth,     \* localStorage has a pos_auth record
  isAuthenticated,
  notifications,  \* React state: the in-memory feed
  storedNotifs,   \* localStorage pos_notifications: [present, value]
  query,          \* the command input
  loading,
  response,       \* the DispatchResult on display
  collections,    \* context, avatars, tasks, events, weather, emails, contacts
  pages,          \* taskPage, eventPage, emailPage, contactPage
  activeTab,
  submits,        \* handleSubmit calls awaiting the /process response
  timers,         \* pending setTimeout callbacks, in registration order
  contactLoads,   \* loadContacts calls in flight
  dashLoads,      \* loadDashboardData calls in flight
  nextSeq,        \* history: number of notifications created so far
  pushed,         \* history: the notifications pushed by the last step
  lastSet,        \* history: the envelope writes made by the last step
  hist,           \* history: one record per handleSubmit call
  loadLog,        \* history: the finished loadDashboardData calls
  nLogins,        \* history: sign-ins submitted
  nManual,        \* history: manual contact refreshes
  chatHistory,    \* React state: the chat transcript
  storedChat,     \* localStorage pos_chat_history: [present, value]
  groqInput,      \* the chat input
  groqLoading,
  chats,          \* handleGroqChat calls awaiting the /groq/chat response
  chatLog,        \* history: one record per handleGroqChat call
  cleared,        \* history: clearChatHistory ran and no send was issued since
  nClears,        \* history: number of clearChatHistory calls
  wiped,          \* history: the turns removed by clearChatHistory
  window,         \* the SpeechRecognition constructors the platform defines
  sessions,       \* the SpeechRecognition objects created so far
  recognitionRef, \* recognitionRef.current: index into sessions, 0 for null
  isRecording,
  nStarts,        \* history: number of startRecording calls
  lastVoice,      \* history: the last voice handler that ran
  nPolls,         \* history: number of runs of the 30-second poll
  nMarks          \* history: number of clicks in the notification panel

vars == <<now, mounted, storedAuth, isAuthenticated, notifications, storedNotifs,
          query, loading, response, collections, pages, activeTab, submits,
          timers, contactLoads, dashLoads, nextSeq, pushed, lastSet, hist,
          loadLog, nLogins, nManual, chatHistory, storedChat, groqInput,
          groqLoading, chats, chatLog, cleared, nClears, wiped, window, sessions,
          recognitionRef, isRecording, nStarts, lastVoice, nPolls, nMarks>>

chatVars == <<chatHistory, storedChat, groqInput, groqLoading, chats, chatLog,
              cleared, nClears, wiped>>

voiceVars == <<window, sessions, recognitionRef, isRecording, nStarts, lastVoice>>

feedVars == <<nPolls, nMarks>>

(***************************************************************************)
(* Bounds of the model.                                                    *)
(***************************************************************************)
MaxTicks == 3
MaxSubmits == 1
MaxLogins == 1
MaxManual == 1
MaxPage == 4
MaxSends == 2
MaxClears == 1
MaxStarts == 2
MaxPolls == 1
MaxMarks == 2

(***************************************************************************)
(* Program constants.                                                      *)
(***************************************************************************)
NotificationCap == 20
ContactDelay == 500
RefreshDelay == 1500
AuthDelay == 1000
itemsPerPage == 5

TickMs == ContactDelay

Min(a, b) == IF a < b THEN a ELSE b

Take(s, n) == SubSeq(s, 1, Min(n, Len(s)))

RemoveAt(s, i) == SubSeq(s, 1, i - 1) \o SubSeq(s, i + 1, Len(s))

Range(s) == {s[i] : i \in DOMAIN s}

(***************************************************************************)
(* Notification feed.                                                      *)
(***************************************************************************)
newNotif(type, message, t, sq) ==
  [id |-> t, type |-> type, message |-> message, time |-> "Just now",
   read |-> FALSE, seq |-> sq]

\* mutant: the slice(0, 20) is missing
addNotificationNoCut(snap, n) == <<n>> \o snap

addNotification(snap, n) == Take(<<n>> \o snap, NotificationCap)

Stored(feed) == [present |-> TRUE, value |-> feed]

Absent == [present |-> FALSE, value |-> <<>>]

loadNotifications(cur, st) == IF st.present THEN st.value ELSE cur

loadChatHistory(cur, st) == IF st.present THEN st.value ELSE cur

\* A feed persisted by an earlier session, newest first.
OldNotif(i) ==
  [id |-> 0 - i, type |-> "system", message |-> "earlier session",
   time |-> "Just now", read |-> FALSE, seq |-> 0 - i]

OldFeed(n) == [i \in 1..n |-> OldNotif(i)]

(***************************************************************************)
(* JSON values as the code sees them.  `items` is meaningful for arrays.   *)
(***************************************************************************)
Arr(n) == [t |-> "array", items |-> [i \in 1..n |-> i]]

Undefined == [t |-> "undefined", items |-> <<>>]

JsNull == [t |-> "null", items |-> <<>>]

JsString == [t |-> "string", items |-> <<>>]   \* a non-empty string

JsObject == [t |-> "object", items |-> <<>>]

Truthy(v) == v.t \notin {"undefined", "null"}

IsArray(v) == v.t = "array"

\* x.length of an array; the views read it only from arrays
Length(v) == Len(v.items)

\* A response: kind "reject" (fetch rejected), "badjson" (res.json() rejected),
\* "null" (the body is the JSON null) or "object" (with its named field).
Body(kind, field) == [kind |-> kind, field |-> field]

Resources == <<"context", "avatars", "tasks", "events", "weather", "emails", "contacts">>

Envelope == {"avatars", "tasks", "events", "emails", "contacts"}

\* mutant: the payload is dropped
UnwrapEmpty(field) == Arr(0)

\* (await res.json()).<name> || []
Unwrap(field) == IF Truthy(field) THEN field ELSE Arr(0)

\* the value handed to the setter of resource res
Parsed(res, body) ==
  IF res \in Envelope THEN Unwrap(body.field)
  ELSE IF body.kind = "null" THEN JsNull ELSE JsObject

\* the await on the response of resource res throws
Throws(res, body) ==
  \/ body.kind \in {"reject", "badjson"}
  \/ body.kind = "null" /\ res \in Envelope

NewLoad(origin, sid) ==
  [stage |-> 1, changed |-> {}, origin |-> origin, sid |-> sid]

(***************************************************************************)
(* Command dispatcher helpers.                                             *)
(***************************************************************************)
Check == "[check] "

Cross == "[cross] "

Trim(q) == IF q \in {"", "  "} THEN "" ELSE q

ActivationNotifs(agents, t, sq) ==
  [i \in 1..Len(agents) |->
     newNotif(agents[i], Check \o agents[i] \o " Agent activated", t, sq + i)]

\* data.agents.forEach(agent => addNotification(...)): every call prepends to
\* the feed of the handler's closure; cur is the state left by the calls so far.
RECURSIVE forEachAdd(_, _, _, _)
forEachAdd(ns, i, snap, cur) ==
  IF i > Len(ns) THEN cur
  ELSE forEachAdd(ns, i + 1, snap, addNotification(snap, ns[i]))

isContactAction(data) == data.hasAgents /\ "contact" \in Range(data.agents)

Timer(kind, due, snap, sid, login) ==
  [kind |-> kind, due |-> due, snap |-> snap, sid |-> sid, login |-> login]

\* mutant: the full refresh is scheduled only when some agent fired
ScheduledTimersIfAgents(data, snap, sid, t) ==
  (IF isContactAction(data)
     THEN <<Timer("contact", t + ContactDelay, snap, sid, FALSE)>>
     ELSE <<>>)
  \o (IF data.hasAgents /\ Len(data.agents) > 0
        THEN <<Timer("refresh", t + RefreshDelay, snap, sid, FALSE)>>
        ELSE <<>>)

ScheduledTimers(data, snap, sid, t) ==
  (IF isContactAction(data)
     THEN <<Timer("contact", t + ContactDelay, snap, sid, FALSE)>>
     ELSE <<>>)
  \o <<Timer("refresh", t + RefreshDelay, snap, sid, FALSE)>>

ErrMessage(kind) ==
  CASE kind = "reject" -> "Failed to fetch"
    [] kind = "badjson" -> "Unexpected token < in JSON at position 0"
    [] OTHER -> "Cannot read properties of null (reading 'agents')"

NoResponse ==
  [isNull |-> TRUE, response |-> "", hasAgents |-> FALSE, agents |-> <<>>, error |-> ""]

\* setResponse(data): the parsed body as it came, its error field included
DataResult(data) ==
  [isNull |-> FALSE, response |-> "Done", hasAgents |-> data.hasAgents,
   agents |-> data.agents,
   error |-> IF "error" \in DOMAIN data THEN data.error ELSE ""]

\* mutant: the error-shaped result carries no error message
ErrorResultNoMessage(msg) ==
  [isNull |-> FALSE, response |-> "Error processing request", hasAgents |-> FALSE,
   agents |-> <<>>, error |-> ""]

ErrorResult(msg) ==
  [isNull |-> FALSE, response |-> "Error processing request", hasAgents |-> FALSE,
   agents |-> <<>>, error |-> msg]

NewHist ==
  [status |-> "inflight", hasAgents |-> FALSE, agents |-> <<>>, handledAt |-> 0 - 1,
   acts |-> <<>>, errs |-> <<>>, fullSched |-> 0, contactSched |-> 0,
   fullRuns |-> 0, fullRunAt |-> 0 - 1, contactRuns |-> 0, contactRunAt |-> 0 - 1,
   contactDone |-> FALSE, confirm |-> <<>>]

\* a timer callback runs when its delay has passed and no callback registered for
\* an earlier time (or earlier for the same time) is still pending
TimerDue(i) ==
  /\ timers[i].due <= now
  /\ \A j \in DOMAIN timers :
       j # i => ~(\/ timers[j].due < timers[i].due
                  \/ timers[j].due = timers[i].due /\ j < i)

\* mutant: loadContacts() is not awaited
ConfirmReadyNoAwait(load) == load.phase \in {"fetching", "returned"}

\* `await loadContacts()` has returned
ConfirmReady(load) == load.phase = "returned"

\* a promise continuation is queued: it runs before any other task
ContinuationPending == \E i \in DOMAIN contactLoads : contactLoads[i].phase = "returned"

TabOf(c) ==
  CASE c = "tasks" -> "tasks"
    [] c = "events" -> "calendar"
    [] c = "emails" -> "email"
    [] OTHER -> "contact"

totalPages(c) == (Length(collections[c]) + itemsPerPage - 1) \div itemsPerPage

\* Array.prototype.slice(a, b) for 0 <= a <= b
Slice(s, a, b) == SubSeq(s, Min(a, Len(s)) + 1, Min(b, Len(s)))

\* mutant: the start index is computed from a zero-based page
startIndexZeroBased(c) == pages[c] * itemsPerPage

startIndex(c) == (pages[c] - 1) * itemsPerPage

\* the items a paginated view renders
paginated(c) == Slice(collections[c].items, startIndex(c), startIndex(c) + itemsPerPage)

\* history record of a voice handler: what it saw and what it left
VoiceEvent(event, sid, text, q0, g0, ss0, ref0, q1, g1, ss1, ref1, rec1, note) ==
  [event |-> event, sid |-> sid, text |-> text,
   queryBefore |-> q0, groqBefore |-> g0, queryAfter |-> q1, groqAfter |-> g1,
   created |-> Len(ss1) - Len(ss0), refBefore |-> ref0, refAfter |-> ref1,
   recAfter |-> rec1, note |-> note]

NoVoice == VoiceEvent("none", 0, "", "", "", <<>>, 0, "", "", <<>>, 0, FALSE, <<>>)

(***************************************************************************)
(* Initial state: the values given to useState, and what localStorage      *)
(* holds from earlier sessions.                                            *)
(***************************************************************************)
InitCommon ==
  /\ now = 0
  /\ mounted = FALSE
  /\ storedAuth \in BOOLEAN
  /\ isAuthenticated = FALSE
  /\ notifications = <<>>
  /\ query = ""
  /\ loading = FALSE
  /\ response = NoResponse
  /\ collections = [c \in Range(Resources) |->
                      IF c \in Envelope THEN Arr(0) ELSE JsNull]
  /\ pages = [c \in {"tasks", "events", "emails", "contacts"} |-> 1]
  /\ activeTab = "dashboard"
  /\ submits = <<>>
  /\ timers = <<>>
  /\ contactLoads = <<>>
  /\ dashLoads = <<>>
  /\ nextSeq = 0
  /\ pushed = <<>>
  /\ lastSet = <<>>
  /\ hist = <<>>
  /\ loadLog = {}
  /\ nLogins = 0
  /\ nManual = 0
  /\ chatHistory = <<>>
  /\ groqInput = ""
  /\ groqLoading = FALSE
  /\ chats = <<>>
  /\ chatLog = <<>>
  /\ cleared = FALSE
  /\ nClears = 0
  /\ wiped = {}
  /\ nPolls = 0
  /\ nMarks = 0
  /\ sessions = <<>>
  /\ recognitionRef = 0
  /\ isRecording = FALSE
  /\ nStarts = 0
  /\ lastVoice = NoVoice

Init ==
  /\ InitCommon
  /\ storedNotifs \in {Absent, Stored(OldFeed(NotificationCap))}
  /\ storedChat = Absent
  /\ window = {"webkitSpeechRecognition"}

NoPush ==
  /\ UNCHANGED <<notifications, storedNotifs, nextSeq>>
  /\ pushed' = <<>>

PushOne(snap, type, message) ==
  LET n == newNotif(type, message, now, nextSeq + 1) IN
    /\ notifications' = addNotification(snap, n)
    /\ storedNotifs' = Stored(addNotification(snap, n))
    /\ nextSeq' = nextSeq + 1
    /\ pushed' = <<n>>

(***************************************************************************)
(* Time.                                                                   *)
(***************************************************************************)
Tick ==
  /\ ~ContinuationPending
  /\ now + TickMs <= MaxTicks * TickMs
  /\ now' = now + TickMs
  /\ pushed' = <<>>
  /\ lastSet' = <<>>
  /\ UNCHANGED <<chatVars, voiceVars>>
  /\ UNCHANGED feedVars
  /\ UNCHANGED <<mounted, storedAuth, isAuthenticated, notifications, storedNotifs,
                 query, loading, response, collections, pages, activeTab, submits,
                 timers, contactLoads, dashLoads, nextSeq, hist, loadLog, nLogins, nManual>>

(***************************************************************************)
(* Session: the mount effect, the sign-in form and its 1000 ms timer, and  *)
(* the Sign Out button.                                                    *)
(***************************************************************************)
Mount ==
  /\ ~mounted
  /\ mounted' = TRUE
  /\ IF storedAuth
       THEN /\ isAuthenticated' = TRUE
            /\ dashLoads' = Append(dashLoads, NewLoad("mount", 0))
            /\ notifications' = loadNotifications(notifications, storedNotifs)
       ELSE UNCHANGED <<isAuthenticated, dashLoads, notifications>>
  /\ pushed' = <<>>
  /\ lastSet' = <<>>
  /\ chatHistory' = IF storedAuth THEN loadChatHistory(chatHistory, storedChat)
                                   ELSE chatHistory
  /\ UNCHANGED <<storedChat, groqInput, groqLoading, chats, chatLog, cleared,
                 nClears, wiped, voiceVars>>
  /\ UNCHANGED feedVars
  /\ UNCHANGED <<now, storedAuth, storedNotifs, query, loading, response,
                 collections, pages, activeTab, submits, timers, contactLoads,
                 nextSeq, hist, loadLog, nLogins, nManual>>

handleAuth(showLogin) ==
  /\ mounted
  /\ ~ContinuationPending
  /\ ~isAuthenticated
  /\ \A i \in DOMAIN timers : timers[i].kind # "auth"
  /\ nLogins < MaxLogins
  /\ nLogins' = nLogins + 1
  /\ timers' = Append(timers, Timer("auth", now + AuthDelay, notifications, 0, showLogin))
  /\ pushed' = <<>>
  /\ lastSet' = <<>>
  /\ UNCHANGED <<chatVars, voiceVars>>
  /\ UNCHANGED feedVars
  /\ UNCHANGED <<now, mounted, storedAuth, isAuthenticated, notifications,
                 storedNotifs, query, loading, response, collections, pages,
                 activeTab, submits, contactLoads, dashLoads, nextSeq, hist,
                 loadLog, nManual>>

AuthTimer(i) ==
  /\ ~ContinuationPending
  /\ timers[i].kind = "auth"
  /\ TimerDue(i)
  /\ timers' = RemoveAt(timers, i)
  /\ storedAuth' = TRUE
  /\ isAuthenticated' = TRUE
  /\ dashLoads' = Append(dashLoads, NewLoad("auth", 0))
  /\ PushOne(timers[i].snap, "system",
             IF timers[i].login THEN "[wave] Welcome back, Demo!"
                                ELSE "[party] Account created!")
  /\ lastSet' = <<>>
  /\ UNCHANGED <<chatVars, voiceVars>>
  /\ UNCHANGED feedVars
  /\ UNCHANGED <<now, mounted, query, loading, response, collections, pages,
                 activeTab, submits, contactLoads, hist, loadLog, nLogins, nManual>>

SignOut ==
  /\ mounted
  /\ ~ContinuationPending
  /\ isAuthenticated
  /\ storedAuth' = FALSE
  /\ storedNotifs' = Absent
  /\ isAuthenticated' = FALSE
  /\ pushed' = <<>>
  /\ lastSet' = <<>>
  /\ UNCHANGED <<chatVars, voiceVars>>
  /\ UNCHANGED feedVars
  /\ UNCHANGED <<now, mounted, notifications, query, loading, response,
                 collections, pages, activeTab, submits, timers, contactLoads,
                 dashLoads, nextSeq, hist, loadLog, nLogins, nManual>>

(***************************************************************************)
(* Command dispatcher.                                                     *)
(***************************************************************************)
setQuery(q) ==
  /\ ~ContinuationPending
  /\ isAuthenticated
  /\ q # query
  /\ query' = q
  /\ NoPush
  /\ lastSet' = <<>>
  /\ UNCHANGED <<chatVars, voiceVars>>
  /\ UNCHANGED feedVars
  /\ UNCHANGED <<now, mounted, storedAuth, isAuthenticated, loading, response,
                 collections, pages, activeTab, submits, timers, contactLoads,
                 dashLoads, hist, loadLog, nLogins, nManual>>

\* handleSubmit up to its await; the input and the Execute button are disabled
\* while loading
handleSubmit ==
  /\ ~ContinuationPending
  /\ isAuthenticated
  /\ ~loading
  /\ Trim(query) # ""
  /\ Len(hist) < MaxSubmits
  /\ loading' = TRUE
  /\ submits' = Append(submits, [sid |-> Len(hist) + 1, snap |-> notifications])
  /\ hist' = Append(hist, NewHist)
  /\ NoPush
  /\ lastSet' = <<>>
  /\ UNCHANGED <<chatVars, voiceVars>>
  /\ UNCHANGED feedVars
  /\ UNCHANGED <<now, mounted, storedAuth, isAuthenticated, query, response,
                 collections, pages, activeTab, timers, contactLoads, dashLoads,
                 loadLog, nLogins, nManual>>

\* the try block after `await res.json()`, and the finally block
SubmitResolve(i, data) ==
  LET s == submits[i]
      acts == IF data.hasAgents /\ Len(data.agents) > 0
                THEN ActivationNotifs(data.agents, now, nextSeq)
                ELSE <<>>
      sched == ScheduledTimers(data, s.snap, s.sid, now)
  IN
    /\ ~ContinuationPending
    /\ submits' = RemoveAt(submits, i)
    /\ response' = DataResult(data)
    /\ notifications' = forEachAdd(acts, 1, s.snap, notifications)
    /\ storedNotifs' = IF acts = <<>> THEN storedNotifs
                       ELSE Stored(forEachAdd(acts, 1, s.snap, notifications))
    /\ nextSeq' = nextSeq + Len(acts)
    /\ pushed' = acts
    /\ query' = ""
    /\ timers' = timers \o sched
    /\ loading' = FALSE
    /\ hist' = [hist EXCEPT ![s.sid] =
                  [@ EXCEPT !.status = "ok", !.hasAgents = data.hasAgents,
                            !.agents = data.agents, !.handledAt = now,
                            !.acts = acts,
                            !.fullSched = Cardinality({j \in DOMAIN sched :
                                                        sched[j].kind = "refresh"}),
                            !.contactSched = Cardinality({j \in DOMAIN sched :
                                                        sched[j].kind = "contact"})]]
    /\ lastSet' = <<>>
    /\ UNCHANGED <<chatVars, voiceVars>>
    /\ UNCHANGED feedVars
    /\ UNCHANGED <<now, mounted, storedAuth, isAuthenticated, collections, pages,
                   activeTab, contactLoads, dashLoads, loadLog, nLogins, nManual>>

\* the catch block and the finally block
SubmitFail(i, kind) ==
  LET s == submits[i] IN
    /\ ~ContinuationPending
    /\ submits' = RemoveAt(submits, i)
    /\ response' = ErrorResult(ErrMessage(kind))
    /\ PushOne(s.snap, "system", Cross \o "Error: " \o ErrMessage(kind))
    /\ loading' = FALSE
    /\ hist' = [hist EXCEPT ![s.sid] =
                  [@ EXCEPT !.status = "failed", !.handledAt = now,
                            !.errs = pushed']]
    /\ lastSet' = <<>>
    /\ UNCHANGED <<chatVars, voiceVars>>
    /\ UNCHANGED feedVars
    /\ UNCHANGED <<now, mounted, storedAuth, isAuthenticated, query, collections,
                   pages, activeTab, timers, contactLoads, dashLoads, loadLog, nLogins, nManual>>

\* setTimeout(async () => { await loadContacts(); ... }, 500): up to the fetch
ContactTimer(i) ==
  LET tm == timers[i] IN
    /\ ~ContinuationPending
    /\ tm.kind = "contact"
    /\ TimerDue(i)
    /\ timers' = RemoveAt(timers, i)
    /\ contactLoads' = Append(contactLoads,
         [sid |-> tm.sid, snap |-> tm.snap, notify |-> TRUE, phase |-> "fetching"])
    /\ hist' = [hist EXCEPT ![tm.sid] =
                  [@ EXCEPT !.contactRuns = @ + 1, !.contactRunAt = now]]
    /\ NoPush
    /\ lastSet' = <<>>
    /\ UNCHANGED <<chatVars, voiceVars>>
    /\ UNCHANGED feedVars
    /\ UNCHANGED <<now, mounted, storedAuth, isAuthenticated, query, loading,
                   response, collections, pages, activeTab, submits, dashLoads,
                   loadLog, nLogins, nManual>>

\* setTimeout(loadDashboardData, 1500)
RefreshTimer(i) ==
  LET tm == timers[i] IN
    /\ ~ContinuationPending
    /\ tm.kind = "refresh"
    /\ TimerDue(i)
    /\ timers' = RemoveAt(timers, i)
    /\ dashLoads' = Append(dashLoads, NewLoad("timer", tm.sid))
    /\ hist' = [hist EXCEPT ![tm.sid] =
                  [@ EXCEPT !.fullRuns = @ + 1, !.fullRunAt = now]]
    /\ NoPush
    /\ lastSet' = <<>>
    /\ UNCHANGED <<chatVars, voiceVars>>
    /\ UNCHANGED feedVars
    /\ UNCHANGED <<now, mounted, storedAuth, isAuthenticated, query, loading,
                   response, collections, pages, activeTab, submits, contactLoads,
                   loadLog, nLogins, nManual>>

\* the continuation of `await loadContacts()` in the 500 ms callback
ContactConfirm(i) ==
  LET l == contactLoads[i] IN
    /\ l.notify
    /\ ConfirmReady(l)
    /\ contactLoads' = RemoveAt(contactLoads, i)
    /\ PushOne(l.snap, "contact", Check \o "Contacts updated")
    /\ hist' = [hist EXCEPT ![l.sid] =
                  [@ EXCEPT !.confirm = pushed',
                            !.contactDone = (l.phase = "returned")]]
    /\ lastSet' = <<>>
    /\ UNCHANGED <<chatVars, voiceVars>>
    /\ UNCHANGED feedVars
    /\ UNCHANGED <<now, mounted, storedAuth, isAuthenticated, query, loading,
                   response, collections, pages, activeTab, submits, timers,
                   dashLoads, loadLog, nLogins, nManual>>

(***************************************************************************)
(* Resource aggregator.                                                    *)
(***************************************************************************)
\* loadContacts from its fetch to its return (the catch swallows a failure)
ContactSettle(i, body) ==
  LET l == contactLoads[i] IN
    /\ ~ContinuationPending
    /\ l.phase = "fetching"
    /\ IF Throws("contacts", body)
         THEN /\ UNCHANGED collections
              /\ lastSet' = <<>>
         ELSE /\ collections' = [collections EXCEPT !["contacts"] = Parsed("contacts", body)]
              /\ lastSet' = <<[coll |-> "contacts", raw |-> body.field,
                               by |-> "loadContacts", prev |-> collections["contacts"]]>>
    /\ contactLoads' = IF l.notify
                         THEN [contactLoads EXCEPT ![i].phase = "returned"]
                         ELSE RemoveAt(contactLoads, i)
    /\ NoPush
    /\ UNCHANGED <<chatVars, voiceVars>>
    /\ UNCHANGED feedVars
    /\ UNCHANGED <<now, mounted, storedAuth, isAuthenticated, query, loading,
                   response, pages, activeTab, submits, timers, dashLoads, hist,
                   loadLog, nLogins, nManual>>

\* the Refresh button of the contact view
RefreshButton ==
  /\ ~ContinuationPending
  /\ isAuthenticated
  /\ activeTab = "contact"
  /\ nManual < MaxManual
  /\ nManual' = nManual + 1
  /\ contactLoads' = Append(contactLoads,
       [sid |-> 0, snap |-> notifications, notify |-> FALSE, phase |-> "fetching"])
  /\ NoPush
  /\ lastSet' = <<>>
  /\ UNCHANGED <<chatVars, voiceVars>>
  /\ UNCHANGED feedVars
  /\ UNCHANGED <<now, mounted, storedAuth, isAuthenticated, query, loading,
                 response, collections, pages, activeTab, submits, timers,
                 dashLoads, hist, loadLog, nLogins>>

\* loadDashboardData from one await to the next: stage k waits for the body of
\* Resources[k] (stage 1 also for Promise.all) and hands it to the setter
DashStep(i, body) ==
  LET l == dashLoads[i]
      res == Resources[l.stage]
      val == Parsed(res, body)
      chg == IF val = collections[res] THEN l.changed ELSE l.changed \cup {res}
  IN
    /\ ~ContinuationPending
    /\ body.kind = "reject" => l.stage = 1
    /\ IF Throws(res, body)
         THEN /\ UNCHANGED collections
              /\ lastSet' = <<>>
              /\ dashLoads' = RemoveAt(dashLoads, i)
              /\ loadLog' = loadLog \cup
                   {[origin |-> l.origin, outcome |-> "failed",
                     changed |-> l.changed, stage |-> l.stage]}
         ELSE /\ collections' = [collections EXCEPT ![res] = val]
              /\ lastSet' = IF res \in Envelope
                              THEN <<[coll |-> res, raw |-> body.field,
                                      by |-> "loadDashboardData",
                                      prev |-> collections[res]]>>
                              ELSE <<>>
              /\ IF l.stage = Len(Resources)
                   THEN /\ dashLoads' = RemoveAt(dashLoads, i)
                        /\ loadLog' = loadLog \cup
                             {[origin |-> l.origin, outcome |-> "ok",
                               changed |-> chg, stage |-> l.stage]}
                   ELSE /\ dashLoads' = [dashLoads EXCEPT ![i].stage = @ + 1,
                                                          ![i].changed = chg]
                        /\ UNCHANGED loadLog
    /\ NoPush
    /\ UNCHANGED <<chatVars, voiceVars>>
    /\ UNCHANGED feedVars
    /\ UNCHANGED <<now, mounted, storedAuth, isAuthenticated, query, loading,
                   response, pages, activeTab, submits, timers, contactLoads, hist, nLogins, nManual>>

(***************************************************************************)
(* Views: the sidebar and the Pagination buttons.                          *)
(***************************************************************************)
setActiveTab(tab) ==
  /\ ~ContinuationPending
  /\ isAuthenticated
  /\ tab # activeTab
  /\ activeTab' = tab
  /\ NoPush
  /\ lastSet' = <<>>
  /\ UNCHANGED <<chatVars, voiceVars>>
  /\ UNCHANGED feedVars
  /\ UNCHANGED <<now, mounted, storedAuth, isAuthenticated, query, loading,
                 response, collections, pages, submits, timers, contactLoads,
                 dashLoads, hist, loadLog, nLogins, nManual>>

\* Pagination is rendered when totalPages > 1; a button calls onPageChange
\* unless it is disabled
PageTurn(c, delta) ==
  /\ ~ContinuationPending
  /\ isAuthenticated
  /\ activeTab = TabOf(c)
  /\ IsArray(collections[c])
  /\ totalPages(c) > 1
  /\ pages[c] # (IF delta = 1 THEN totalPages(c) ELSE 1)
  /\ pages[c] + delta <= MaxPage
  /\ pages' = [pages EXCEPT ![c] = @ + delta]
  /\ NoPush
  /\ lastSet' = <<>>
  /\ UNCHANGED <<chatVars, voiceVars>>
  /\ UNCHANGED feedVars
  /\ UNCHANGED <<now, mounted, storedAuth, isAuthenticated, query, loading,
                 response, collections, activeTab, submits, timers, contactLoads,
                 dashLoads, hist, loadLog, nLogins, nManual>>

PageNext(c) == PageTurn(c, 1)

PagePrev(c) == PageTurn(c, 0 - 1)

(***************************************************************************)
(* Inputs.                                                                 *)
(***************************************************************************)
Queries == {"Add contact John"}

Data(hasAgents, agents) == [hasAgents |-> hasAgents, agents |-> agents]

Responses ==
  {Data(FALSE, <<>>), Data(TRUE, <<>>), Data(TRUE, <<"task">>),
   Data(TRUE, <<"contact">>), Data(TRUE, <<"task", "contact">>)}

FailKinds == {"reject", "badjson", "null"}

RejectBody == Body("reject", Undefined)

\* the backend's GET endpoints are down
DownBodies == {RejectBody}

\* bodies the backend may answer a GET with
RichBodies(res) ==
  CASE res = "tasks" ->
         {Body("badjson", Undefined), Body("null", Undefined)}
         \cup {Body("object", f) : f \in {Undefined, JsString, Arr(2), Arr(6)}}
    [] res = "contacts" ->
         {Body("badjson", Undefined)}
         \cup {Body("object", f) : f \in {Undefined, JsNull, Arr(2), Arr(6)}}
    [] res \in {"avatars", "events", "emails"} ->
         {Body("badjson", Undefined), Body("object", Arr(2))}
    [] OTHER -> {Body("badjson", Undefined), Body("object", Undefined)}

Tabs == {"dashboard", "tasks", "calendar", "email", "groq", "weather", "contact"}

Paged == {"tasks", "events", "emails", "contacts"}

(***************************************************************************)
(* Specification of the dispatcher and the feed: a session that is signed  *)
(* in from storage or through the sign-in form.                            *)
(***************************************************************************)
Next ==
  \/ Tick
  \/ Mount
  \/ \E m \in BOOLEAN : handleAuth(m)
  \/ \E i \in DOMAIN timers : AuthTimer(i)
  \/ \E q \in Queries : setQuery(q)
  \/ handleSubmit
  \/ \E i \in DOMAIN submits, data \in Responses : SubmitResolve(i, data)
  \/ \E i \in DOMAIN submits, kind \in FailKinds : SubmitFail(i, kind)
  \/ \E i \in DOMAIN timers : ContactTimer(i)
  \/ \E i \in DOMAIN timers : RefreshTimer(i)
  \/ \E i \in DOMAIN contactLoads :
       \E body \in DownBodies \cup {Body("object", Arr(2))} : ContactSettle(i, body)
  \/ \E i \in DOMAIN contactLoads : ContactConfirm(i)
  \/ \E i \in DOMAIN dashLoads :
       \E body \in DownBodies : DashStep(i, body)

Spec == Init /\ [][Next]_vars

(***************************************************************************)
(* The same with the Sign Out button.                                      *)
(***************************************************************************)
NextSession ==
  \/ Next
  \/ SignOut

SpecSession == Init /\ [][NextSession]_vars

(***************************************************************************)
(* Specification of the aggregator and the paginated views: a signed-in    *)
(* session whose GET endpoints answer with any of RichBodies, refreshed by *)
(* the mount effect and by the Refresh button of the contact view.         *)
(***************************************************************************)
InitAgg ==
  /\ InitCommon
  /\ storedAuth = TRUE
  /\ storedNotifs = Absent
  /\ storedChat = Absent
  /\ window = {"webkitSpeechRecognition"}

NextAgg ==
  \/ Mount
  \/ \E i \in DOMAIN contactLoads :
       \E body \in RichBodies("contacts") \cup {RejectBody} : ContactSettle(i, body)
  \/ RefreshButton
  \/ \E i \in DOMAIN dashLoads :
       \E body \in RichBodies(Resources[dashLoads[i].stage]) \cup {RejectBody} :
         DashStep(i, body)
  \/ \E tab \in {"dashboard", "tasks", "contact"} : setActiveTab(tab)
  \/ \E c \in Paged : PageNext(c)
  \/ \E c \in Paged : PagePrev(c)

SpecAgg == InitAgg /\ [][NextAgg]_vars

(***************************************************************************)
(* Properties.                                                             *)
(***************************************************************************)
Reverse(q) == [i \in 1..Len(q) |-> q[Len(q) + 1 - i]]

Handled(s) == hist[s].status = "ok"

\* positions of notification n in feed f
Positions(f, n) == {i \in DOMAIN f : f[i] = n}

\* C1: every push leaves the feed equal to the new notification followed by the
\* feed as it stood immediately before the push, cut to 20 entries (for the
\* pushes of one step: the pushed notifications, newest first, followed by the
\* feed before the step).
C1_PushPrependsToCurrentFeed ==
  [][pushed' # <<>> =>
       notifications' = Take(Reverse(pushed') \o notifications, NotificationCap)]_vars

\* C2: the in-memory feed and the persisted feed each hold at most 20
\* notifications and are ordered newest-first by creation order.
FeedOk(f) ==
  /\ Len(f) <= NotificationCap
  /\ \A i, j \in DOMAIN f : i < j => f[i].seq > f[j].seq

C2_FeedBoundedNewestFirst ==
  /\ FeedOk(notifications)
  /\ storedNotifs.present => FeedOk(storedNotifs.value)

\* a push onto a full feed: the newest entry was pushed in this session and the
\* oldest entry of the earlier session has been cut
C2_Witness ==
  /\ pushed # <<>>
  /\ Len(notifications) = NotificationCap
  /\ notifications[1] = pushed[Len(pushed)]
  /\ notifications[NotificationCap] = OldNotif(NotificationCap - 1)
  /\ storedNotifs = Stored(notifications)

\* C3: for a successful submit whose response lists k agents, exactly k activation
\* notifications are pushed, one per listed agent in list order, and all k are in
\* the feed once the response has been handled and before any refresh scheduled
\* by that submit runs.
C3_AllActivationsInFeed ==
  \A s \in DOMAIN hist :
    (Handled(s) /\ hist[s].fullRuns = 0 /\ hist[s].contactRuns = 0) =>
      /\ Len(hist[s].acts) = Len(hist[s].agents)
      /\ \A k \in DOMAIN hist[s].acts :
           /\ hist[s].acts[k].message = Check \o hist[s].agents[k] \o " Agent activated"
           /\ hist[s].acts[k] \in Range(notifications)

\* C4: after a successful submit whose agents include 'contact', once the delayed
\* contact refresh has run the feed contains that submit's contact activation
\* notification and, newer than it, a 'Contacts updated' notification.
C4_ActivationAndConfirmationInFeed ==
  \A s \in DOMAIN hist :
    (hist[s].confirm # <<>> /\ pushed = hist[s].confirm) =>
      \E k \in DOMAIN hist[s].acts :
        /\ hist[s].acts[k].type = "contact"
        /\ \E i \in Positions(notifications, hist[s].confirm[1]) :
             \E j \in Positions(notifications, hist[s].acts[k]) : i < j

\* C5: on a transport or parse failure of the /process call, submit leaves an
\* error-shaped result carrying the error message, pushes exactly one 'system'
\* notification containing the error text (and no activation notification),
\* schedules no refresh and ends with loading reset.
JustFailed(s) ==
  /\ hist[s].status = "failed"
  /\ pushed # <<>>
  /\ pushed = hist[s].errs

C5_FailureIsReportedOnce ==
  \A s \in DOMAIN hist :
    /\ hist[s].status = "failed" =>
         /\ Len(hist[s].errs) = 1
         /\ hist[s].errs[1].type = "system"
         /\ hist[s].acts = <<>>
         /\ hist[s].fullSched = 0 /\ hist[s].contactSched = 0
    /\ JustFailed(s) =>
         /\ ~loading
         /\ ~response.isNull
         /\ response.response = "Error processing request"
         /\ response.error \in {ErrMessage(k) : k \in FailKinds}
         /\ pushed[1].message = Cross \o "Error: " \o response.error
         /\ notifications # <<>> /\ notifications[1] = pushed[1]

C5_Witness ==
  \E s \in DOMAIN hist : JustFailed(s) /\ response.error = ErrMessage("badjson")

\* C6: every successful submit schedules exactly one full refresh, whatever agents
\* the response lists (an empty or absent list included); it runs at most once
\* and no earlier than 1500 ms after the response was handled.
RefreshTimersOf(s) == {i \in DOMAIN timers : timers[i].kind = "refresh" /\ timers[i].sid = s}

C6_OneFullRefreshAfterDelay ==
  \A s \in DOMAIN hist :
    /\ Handled(s) =>
         /\ hist[s].fullSched = 1
         /\ Cardinality(RefreshTimersOf(s)) + hist[s].fullRuns = 1
         /\ \A i \in RefreshTimersOf(s) : timers[i].due = hist[s].handledAt + 1500
         /\ hist[s].fullRuns = 1 => hist[s].fullRunAt >= hist[s].handledAt + 1500
    /\ ~Handled(s) => RefreshTimersOf(s) = {} /\ hist[s].fullRuns = 0

C6_Witness ==
  \E s \in DOMAIN hist :
    /\ Handled(s)
    /\ ~hist[s].hasAgents
    /\ hist[s].fullRuns = 1
    /\ \E i \in DOMAIN dashLoads : dashLoads[i].origin = "timer" /\ dashLoads[i].sid = s

\* C7: a successful submit schedules an isolated contact refresh if and only if
\* its agent list contains 'contact'; that refresh starts no earlier than 500 ms
\* after the response was handled, and the confirmation notification is pushed
\* only after the contact refresh has returned.
ContactTimersOf(s) == {i \in DOMAIN timers : timers[i].kind = "contact" /\ timers[i].sid = s}

C7_ContactRefreshIffContactAgent ==
  \A s \in DOMAIN hist :
    /\ Handled(s) =>
         /\ hist[s].contactSched = (IF "contact" \in Range(hist[s].agents) THEN 1 ELSE 0)
         /\ Cardinality(ContactTimersOf(s)) + hist[s].contactRuns = hist[s].contactSched
         /\ \A i \in ContactTimersOf(s) : timers[i].due = hist[s].handledAt + 500
         /\ hist[s].contactRuns > 0 => hist[s].contactRunAt >= hist[s].handledAt + 500
         /\ hist[s].confirm # <<>> => hist[s].contactDone
    /\ ~Handled(s) =>
         /\ ContactTimersOf(s) = {}
         /\ hist[s].contactRuns = 0
         /\ hist[s].confirm = <<>>

C7_Witness ==
  \E s \in DOMAIN hist :
    /\ Handled(s)
    /\ hist[s].agents = <<"task", "contact">>
    /\ hist[s].contactRunAt >= hist[s].handledAt + 500
    /\ hist[s].confirm # <<>>
    /\ hist[s].contactDone

\* C8: a loadDashboardData call that fails (a rejected fetch or a body that fails
\* to parse) has changed no collection.
C8_FailedRefreshChangesNothing ==
  \A l \in loadLog : l.outcome = "failed" => l.changed = {}

\* C9: a missing or malformed (non-array) field in one sub-response leaves that
\* collection empty; an array field is taken as fetched.
C9_MalformedFieldYieldsEmpty ==
  \A k \in DOMAIN lastSet :
    collections[lastSet[k].coll] =
      (IF IsArray(lastSet[k].raw) THEN lastSet[k].raw ELSE Arr(0))

\* C10: in every state reached when a refresh has just replaced a collection, each
\* paginated collection's page p satisfies 0 <= (p-1)*5 <= items.length.
C10_PageInRangeAfterRefresh ==
  lastSet # <<>> =>
    \A c \in Paged :
      IsArray(collections[c]) =>
        /\ 0 <= (pages[c] - 1) * 5
        /\ (pages[c] - 1) * 5 <= Length(collections[c])

(***************************************************************************)
(* Specification of the paginated views over longer collections: a         *)
(* signed-in session whose GET endpoints answer well-formed bodies, with   *)
(* the contact list refreshed by the Refresh button.                       *)
(***************************************************************************)
PageBodies(res) ==
  CASE res = "tasks" -> {Body("object", Arr(12)), Body("object", Arr(7))}
    [] res = "contacts" -> {Body("object", Arr(12))}
    [] res \in {"avatars", "events", "emails"} -> {Body("object", Arr(2))}
    [] OTHER -> {Body("object", Undefined)}

ReloadBodies == {Body("object", Arr(12)), Body("object", Arr(6))}

NextPage ==
  \/ Mount
  \/ \E i \in DOMAIN dashLoads :
       \E body \in PageBodies(Resources[dashLoads[i].stage]) : DashStep(i, body)
  \/ RefreshButton
  \/ \E i \in DOMAIN contactLoads :
       \E body \in ReloadBodies : ContactSettle(i, body)
  \/ \E tab \in {"tasks", "contact"} : setActiveTab(tab)
  \/ \E c \in Paged : PageNext(c)
  \/ \E c \in Paged : PagePrev(c)

SpecPage == InitAgg /\ [][NextPage]_vars

\* C11: page navigation never leaves a collection on an invalid page: whenever a
\* navigation request changes the page of a collection of n items, the new page
\* lies within 1..max(1, ceil(n/5)) and the slice on display starts inside the
\* collection.
C11_NavigationStaysInRange ==
  [][\A c \in Paged :
       (pages'[c] # pages[c] /\ IsArray(collections'[c])) =>
         LET n == Length(collections'[c])
             last == (n + 4) \div 5
         IN /\ pages'[c] >= 1
            /\ pages'[c] <= (IF last > 1 THEN last ELSE 1)
            /\ (pages'[c] - 1) * 5 <= n]_vars

\* C12: for a collection of n items and page size 5, the view on a valid page p
\* (1 <= p <= ceil(n/5)) shows exactly the items at positions
\* (p-1)*5 .. min(p*5, n)-1 in collection order, i.e. min(5, n-(p-1)*5) items;
\* page 3 of 12 items shows exactly 2 items.
C12_PageShowsItsSlice ==
  \A c \in Paged :
    (IsArray(collections[c]) /\ pages[c] >= 1 /\ pages[c] <= totalPages(c)) =>
      LET n == Length(collections[c])
          p == pages[c]
      IN /\ paginated(c) = [k \in 1..Min(5, n - (p - 1) * 5) |->
                              collections[c].items[(p - 1) * 5 + k]]
         /\ (n = 12 /\ p = 3) => Len(paginated(c)) = 2

C12_Witness ==
  \E c \in Paged :
    /\ activeTab = TabOf(c)
    /\ Length(collections[c]) = 12
    /\ pages[c] = 3
    /\ paginated(c) = <<11, 12>>

(***************************************************************************)
(* Chat session.                                                           *)
(***************************************************************************)
userMessage(content, t, sid) ==
  [role |-> "user", content |-> content, timestamp |-> t, sid |-> sid]

aiMessage(t, sid) ==
  [role |-> "assistant", content |-> "reply", timestamp |-> t, sid |-> sid]

\* a transcript persisted by an earlier session
OldTranscript == <<userMessage("earlier question", 0 - 2, 0), aiMessage(0 - 1, 0)>>

\* mutant: the user turn is not appended
updatedHistoryDropped(history, msg) == history

\* [...chatHistory, userMessage]
updatedHistory(history, msg) == Append(history, msg)

ChatErrMessage(kind) ==
  CASE kind = "reject" -> "Failed to fetch"
    [] kind = "badjson" -> "Unexpected token < in JSON at position 0"
    [] OTHER -> "Cannot read properties of null (reading 'success')"

NewChatLog(before, storedBefore, turn, after, storedAfter) ==
  [before |-> before, storedBefore |-> storedBefore, turn |-> turn,
   started |-> after, storedStarted |-> storedAfter, status |-> "inflight",
   prior |-> <<>>, storedPrior |-> Absent, after |-> <<>>, storedAfter |-> Absent,
   note |-> <<>>]

setGroqInput(q) ==
  /\ isAuthenticated
  /\ activeTab = "groq"
  /\ ~groqLoading
  /\ q # groqInput
  /\ groqInput' = q
  /\ NoPush
  /\ lastSet' = <<>>
  /\ UNCHANGED <<chatHistory, storedChat, groqLoading, chats, chatLog, cleared,
                 nClears, wiped, voiceVars>>
  /\ UNCHANGED feedVars
  /\ UNCHANGED <<now, mounted, storedAuth, isAuthenticated, query, loading,
                 response, collections, pages, activeTab, submits, timers,
                 contactLoads, dashLoads, hist, loadLog, nLogins, nManual>>

\* mutant: the Send button is disabled only for an empty input
SendDisabledIgnoresBusy(busy, input) == Trim(input) = ""

\* disabled={groqLoading || !groqInput.trim()} of the Send button
SendDisabled(busy, input) == busy \/ Trim(input) = ""

\* handleGroqChat up to its await; the input and the Send button are disabled
\* while groqLoading
handleGroqChat ==
  LET sid == Len(chatLog) + 1
      msg == userMessage(groqInput, now, sid)
      updated == updatedHistory(chatHistory, msg)
  IN
    /\ isAuthenticated
    /\ activeTab = "groq"
    /\ ~SendDisabled(groqLoading, groqInput)
    /\ Len(chatLog) < MaxSends
    /\ chatHistory' = updated
    /\ storedChat' = Stored(updated)
    /\ groqInput' = ""
    /\ groqLoading' = TRUE
    /\ chats' = Append(chats, [sid |-> sid, updated |-> updated, snap |-> notifications])
    /\ chatLog' = Append(chatLog,
         NewChatLog(chatHistory, storedChat, msg, updated, Stored(updated)))
    /\ cleared' = FALSE
    /\ NoPush
    /\ lastSet' = <<>>
    /\ UNCHANGED <<nClears, wiped, voiceVars>>
    /\ UNCHANGED feedVars
    /\ UNCHANGED <<now, mounted, storedAuth, isAuthenticated, query, loading,
                   response, collections, pages, activeTab, submits, timers,
                   contactLoads, dashLoads, hist, loadLog, nLogins, nManual>>

\* the try block after `await res.json()` for a body that is an object, and the
\* finally block
ChatResolve(i, success) ==
  LET c == chats[i]
      final == Append(c.updated, aiMessage(now, c.sid))
  IN
    /\ chats' = RemoveAt(chats, i)
    /\ IF success
         THEN /\ chatHistory' = final
              /\ storedChat' = Stored(final)
              /\ PushOne(c.snap, "groq", "[robot] Martin responded")
         ELSE /\ UNCHANGED <<chatHistory, storedChat>>
              /\ PushOne(c.snap, "groq", Cross \o "Error: " \o "model unavailable")
    /\ groqLoading' = FALSE
    /\ chatLog' = [chatLog EXCEPT ![c.sid] =
                     [@ EXCEPT !.status = IF success THEN "ok" ELSE "refused",
                               !.prior = chatHistory, !.storedPrior = storedChat,
                               !.after = chatHistory', !.storedAfter = storedChat',
                               !.note = pushed']]
    /\ lastSet' = <<>>
    /\ UNCHANGED <<groqInput, cleared, nClears, wiped, voiceVars>>
    /\ UNCHANGED feedVars
    /\ UNCHANGED <<now, mounted, storedAuth, isAuthenticated, query, loading,
                   response, collections, pages, activeTab, submits, timers,
                   contactLoads, dashLoads, hist, loadLog, nLogins, nManual>>

\* the catch block and the finally block
ChatFail(i, kind) ==
  LET c == chats[i] IN
    /\ chats' = RemoveAt(chats, i)
    /\ UNCHANGED <<chatHistory, storedChat>>
    /\ PushOne(c.snap, "groq", Cross \o "Chat error: " \o ChatErrMessage(kind))
    /\ groqLoading' = FALSE
    /\ chatLog' = [chatLog EXCEPT ![c.sid] =
                     [@ EXCEPT !.status = "failed",
                               !.prior = chatHistory, !.storedPrior = storedChat,
                               !.after = chatHistory', !.storedAfter = storedChat',
                               !.note = pushed']]
    /\ lastSet' = <<>>
    /\ UNCHANGED <<groqInput, cleared, nClears, wiped, voiceVars>>
    /\ UNCHANGED feedVars
    /\ UNCHANGED <<now, mounted, storedAuth, isAuthenticated, query, loading,
                   response, collections, pages, activeTab, submits, timers,
                   contactLoads, dashLoads, hist, loadLog, nLogins, nManual>>

\* the Clear History button of the chat view
clearChatHistory ==
  /\ isAuthenticated
  /\ activeTab = "groq"
  /\ nClears < MaxClears
  /\ nClears' = nClears + 1
  /\ wiped' = wiped \cup Range(chatHistory) \cup Range(storedChat.value)
  /\ chatHistory' = <<>>
  /\ storedChat' = Absent
  /\ PushOne(notifications, "groq", "[broom] Chat history cleared")
  /\ cleared' = TRUE
  /\ lastSet' = <<>>
  /\ UNCHANGED <<groqInput, groqLoading, chats, chatLog, voiceVars>>
  /\ UNCHANGED feedVars
  /\ UNCHANGED <<now, mounted, storedAuth, isAuthenticated, query, loading,
                 response, collections, pages, activeTab, submits, timers,
                 contactLoads, dashLoads, hist, loadLog, nLogins, nManual>>

ChatInputs == {"Give me a productivity tip"}

(***************************************************************************)
(* Specification of the chat session in a session signed in from storage,  *)
(* with or without a transcript of an earlier session.                     *)
(***************************************************************************)
InitChat ==
  /\ InitCommon
  /\ storedAuth = TRUE
  /\ storedNotifs = Absent
  /\ storedChat \in {Absent, Stored(OldTranscript)}
  /\ window = {"webkitSpeechRecognition"}

NextChat ==
  \/ Mount
  \/ \E i \in DOMAIN dashLoads :
       \E body \in DownBodies : DashStep(i, body)
  \/ \E tab \in {"dashboard", "groq"} : setActiveTab(tab)
  \/ \E q \in ChatInputs : setGroqInput(q)
  \/ handleGroqChat
  \/ \E i \in DOMAIN chats, success \in BOOLEAN : ChatResolve(i, success)
  \/ \E i \in DOMAIN chats, kind \in FailKinds : ChatFail(i, kind)
  \/ clearChatHistory

SpecChat == InitChat /\ [][NextChat]_vars

(***************************************************************************)
(* The chat session after any page load: signed in from storage or through *)
(* the sign-in form.                                                       *)
(***************************************************************************)
InitChatSession ==
  /\ InitCommon
  /\ storedNotifs = Absent
  /\ storedChat \in {Absent, Stored(OldTranscript)}
  /\ window = {"webkitSpeechRecognition"}

NextChatSession ==
  \/ NextChat
  \/ Tick
  \/ handleAuth(TRUE)
  \/ \E i \in DOMAIN timers : AuthTimer(i)

SpecChatSession == InitChatSession /\ [][NextChatSession]_vars

IsPrefix(a, b) == Len(a) <= Len(b) /\ SubSeq(b, 1, Len(a)) = a

\* C13: the chat transcript is append-only under send(): at every step of a send
\* (the user turn, the successful reply, the failure) the in-memory transcript
\* and the persisted transcript before the step are each a prefix of the one
\* after it.
C13_TranscriptAppendOnlyUnderSend ==
  [][chatLog' # chatLog =>
       /\ IsPrefix(chatHistory, chatHistory')
       /\ IsPrefix(storedChat.value, storedChat'.value)]_vars

\* C14: a send() whose assistant call fails (success:false, or a transport or
\* parse error) leaves the transcript at length n+1 with the user turn last: the
\* send appends and persists the user turn, the failure handling appends no
\* assistant turn and leaves the persisted transcript as it was, and exactly one
\* error notification is pushed.
ChatFailed(s) == chatLog[s].status \in {"refused", "failed"}

ChatErrors ==
  {Cross \o "Error: " \o "model unavailable"}
  \cup {Cross \o "Chat error: " \o ChatErrMessage(k) : k \in FailKinds}

C14_FailedSendKeepsOnlyUserTurn ==
  \A s \in DOMAIN chatLog :
    /\ chatLog[s].started = chatLog[s].before \o <<chatLog[s].turn>>
    /\ chatLog[s].turn.role = "user"
    /\ chatLog[s].storedStarted = Stored(chatLog[s].started)
    /\ ChatFailed(s) =>
         /\ chatLog[s].after = chatLog[s].prior
         /\ chatLog[s].storedAfter = chatLog[s].storedPrior
         /\ Len(chatLog[s].note) = 1
         /\ chatLog[s].note[1].type = "groq"
         /\ chatLog[s].note[1].message \in ChatErrors
    /\ (ChatFailed(s) /\ s = Len(chatLog) /\ ~cleared) =>
         /\ Len(chatHistory) = Len(chatLog[s].before) + 1
         /\ chatHistory[Len(chatHistory)] = chatLog[s].turn
         /\ storedChat = Stored(chatHistory)

C14_Witness ==
  \E s \in DOMAIN chatLog :
    /\ chatLog[s].status = "refused"
    /\ chatLog[s].before = OldTranscript
    /\ pushed = chatLog[s].note
    /\ Len(chatHistory) = 3
    /\ chatHistory[3].role = "user"
    /\ storedChat = Stored(chatHistory)

\* C15: clear() yields an empty in-memory transcript and removes the persisted
\* chat record, and both stay empty until the next send() is issued.
C15_ClearedStaysEmpty ==
  cleared => (chatHistory = <<>> /\ ~storedChat.present)

(***************************************************************************)
(* Voice capture.  A SpeechRecognition object is "started" from start()    *)
(* to its start event, "listening" until it delivers a result or an error, *)
(* "done" until its end event and "ended" after it; "unstarted" if start() *)
(* threw.  The handlers assigned in startRecording close over activeTab    *)
(* and notifications of the render in which startRecording was invoked.    *)
(***************************************************************************)
\* mutant: the capability test always succeeds
canRecognizeAlways(w) == TRUE

\* 'webkitSpeechRecognition' in window || 'SpeechRecognition' in window
canRecognize(w) == "webkitSpeechRecognition" \in w \/ "SpeechRecognition" \in w

NewSession(tab, snap, state) ==
  [state |-> state, tab |-> tab, snap |-> snap, stopped |-> FALSE,
   lateResult |-> FALSE]

\* mutant: every transcript goes to the command input
voiceTargetCommand(tab) == "query"

\* onresult: if (activeTab === 'groq') setGroqInput else setQuery
voiceTarget(tab) == IF tab = "groq" THEN "groqInput" ELSE "query"

\* mutant: onerror and onend leave isRecording as it is
afterSessionOverKept(rec) == rec

\* onerror, onend: setIsRecording(false)
afterSessionOver(rec) == FALSE

Live(ss) == {i \in DOMAIN ss : ss[i].state \in {"started", "listening", "done"}}

Mic == "[mic] "

NotSupported == Cross \o "Speech recognition not supported in this browser"

\* the microphone button while it shows Start; `throws` is the case of
\* recognition.start() throwing
startRecording(throws) ==
  LET new == NewSession(activeTab, notifications,
                        IF throws THEN "unstarted" ELSE "started")
  IN
    /\ isAuthenticated
    /\ ~isRecording
    /\ nStarts < MaxStarts
    /\ throws => canRecognize(window)
    /\ nStarts' = nStarts + 1
    /\ IF canRecognize(window)
         THEN /\ sessions' = Append(sessions, new)
              /\ recognitionRef' = Len(sessions) + 1
              /\ IF throws
                   THEN PushOne(notifications, "system", Cross \o "Microphone access denied")
                   ELSE NoPush
              /\ isRecording' = FALSE
         ELSE /\ PushOne(notifications, "system", NotSupported)
              /\ UNCHANGED <<sessions, recognitionRef, isRecording>>
    /\ lastVoice' = VoiceEvent(IF ~canRecognize(window) THEN "unsupported"
                                ELSE IF throws THEN "threw" ELSE "start",
                               0, "", query, groqInput, sessions, recognitionRef,
                               query, groqInput, sessions', recognitionRef',
                               isRecording', pushed')
    /\ lastSet' = <<>>
    /\ UNCHANGED <<window, chatVars>>
    /\ UNCHANGED feedVars
    /\ UNCHANGED <<now, mounted, storedAuth, isAuthenticated, query, loading,
                   response, collections, pages, activeTab, submits, timers,
                   contactLoads, dashLoads, hist, loadLog, nLogins, nManual>>

\* recognition.onstart
onstart(i) ==
  /\ sessions[i].state = "started"
  /\ ~sessions[i].stopped
  /\ sessions' = [sessions EXCEPT ![i].state = "listening"]
  /\ isRecording' = TRUE
  /\ PushOne(sessions[i].snap, "system", Mic \o "Listening...")
  /\ lastVoice' = VoiceEvent("onstart", i, "", query, groqInput, sessions,
                             recognitionRef, query, groqInput, sessions',
                             recognitionRef, TRUE, pushed')
  /\ lastSet' = <<>>
  /\ UNCHANGED <<window, recognitionRef, nStarts, chatVars>>
  /\ UNCHANGED feedVars
  /\ UNCHANGED <<now, mounted, storedAuth, isAuthenticated, query, loading,
                 response, collections, pages, activeTab, submits, timers,
                 contactLoads, dashLoads, hist, loadLog, nLogins, nManual>>

\* recognition.onresult; after stop() the platform still returns a result for
\* the audio captured so far
onresult(i, text) ==
  /\ sessions[i].state = "listening"
  /\ sessions' = [sessions EXCEPT ![i].state = "done",
                                  ![i].lateResult = sessions[i].stopped]
  /\ IF voiceTarget(sessions[i].tab) = "groqInput"
       THEN groqInput' = text /\ UNCHANGED query
       ELSE query' = text /\ UNCHANGED groqInput
  /\ PushOne(sessions[i].snap, "system", Mic \o "Voice: " \o text)
  /\ isRecording' = FALSE
  /\ lastVoice' = VoiceEvent("result", i, text, query, groqInput, sessions,
                             recognitionRef, query', groqInput', sessions',
                             recognitionRef, FALSE, pushed')
  /\ lastSet' = <<>>
  /\ UNCHANGED <<window, recognitionRef, nStarts>>
  /\ UNCHANGED <<chatHistory, storedChat, groqLoading, chats, chatLog, cleared, nClears, wiped>>
  /\ UNCHANGED feedVars
  /\ UNCHANGED <<now, mounted, storedAuth, isAuthenticated, loading,
                 response, collections, pages, activeTab, submits, timers,
                 contactLoads, dashLoads, hist, loadLog, nLogins, nManual>>

\* recognition.onerror
onerror(i, err) ==
  /\ sessions[i].state \in {"started", "listening"}
  /\ sessions' = [sessions EXCEPT ![i].state = "done"]
  /\ PushOne(sessions[i].snap, "system", Cross \o "Voice error: " \o err)
  /\ isRecording' = afterSessionOver(isRecording)
  /\ lastVoice' = VoiceEvent("error", i, err, query, groqInput, sessions,
                             recognitionRef, query, groqInput, sessions',
                             recognitionRef, isRecording', pushed')
  /\ lastSet' = <<>>
  /\ UNCHANGED <<window, recognitionRef, nStarts, chatVars>>
  /\ UNCHANGED feedVars
  /\ UNCHANGED <<now, mounted, storedAuth, isAuthenticated, query, loading,
                 response, collections, pages, activeTab, submits, timers,
                 contactLoads, dashLoads, hist, loadLog, nLogins, nManual>>

\* recognition.onend: the platform's end-of-session event
onend(i) ==
  /\ \/ sessions[i].state \in {"listening", "done"}
     \/ sessions[i].state = "started" /\ sessions[i].stopped
  /\ sessions' = [sessions EXCEPT ![i].state = "ended"]
  /\ isRecording' = afterSessionOver(isRecording)
  /\ NoPush
  /\ lastVoice' = VoiceEvent("end", i, "", query, groqInput, sessions,
                             recognitionRef, query, groqInput, sessions',
                             recognitionRef, isRecording', <<>>)
  /\ lastSet' = <<>>
  /\ UNCHANGED <<window, recognitionRef, nStarts, chatVars>>
  /\ UNCHANGED feedVars
  /\ UNCHANGED <<now, mounted, storedAuth, isAuthenticated, query, loading,
                 response, collections, pages, activeTab, submits, timers,
                 contactLoads, dashLoads, hist, loadLog, nLogins, nManual>>

\* the microphone button while it shows Stop
stopRecording ==
  /\ isAuthenticated
  /\ isRecording
  /\ IF recognitionRef # 0
       THEN /\ sessions' = [sessions EXCEPT ![recognitionRef].stopped = TRUE]
            /\ isRecording' = FALSE
       ELSE UNCHANGED <<sessions, isRecording>>
  /\ NoPush
  /\ lastVoice' = VoiceEvent("stop", recognitionRef, "", query, groqInput, sessions,
                             recognitionRef, query, groqInput, sessions',
                             recognitionRef, isRecording', <<>>)
  /\ lastSet' = <<>>
  /\ UNCHANGED <<window, recognitionRef, nStarts, chatVars>>
  /\ UNCHANGED feedVars
  /\ UNCHANGED <<now, mounted, storedAuth, isAuthenticated, query, loading,
                 response, collections, pages, activeTab, submits, timers,
                 contactLoads, dashLoads, hist, loadLog, nLogins, nManual>>

Transcripts == {"create a task"}

VoiceErrors == {"no-speech"}

(***************************************************************************)
(* Specification of voice capture: a session signed in from storage on a   *)
(* platform with or without speech recognition.                            *)
(***************************************************************************)
InitVoice ==
  /\ InitCommon
  /\ storedAuth = TRUE
  /\ storedNotifs = Absent
  /\ storedChat = Absent
  /\ window \in {{}, {"webkitSpeechRecognition"}}

NextVoiceLive ==
  \/ Mount
  \/ \E throws \in BOOLEAN : startRecording(throws)
  \/ \E i \in DOMAIN sessions : onstart(i)
  \/ \E i \in DOMAIN sessions, text \in Transcripts : onresult(i, text)
  \/ \E i \in DOMAIN sessions, err \in VoiceErrors : onerror(i, err)
  \/ \E i \in DOMAIN sessions : onend(i)
  \/ stopRecording

NextVoice ==
  \/ NextVoiceLive
  \/ \E tab \in {"dashboard", "groq"} : setActiveTab(tab)

SpecVoice == InitVoice /\ [][NextVoice]_vars

\* the same on one tab, where the platform delivers the end event of every
\* session it has started
SpecVoiceLive ==
  /\ InitVoice
  /\ [][NextVoiceLive]_vars
  /\ WF_vars(\E i \in DOMAIN sessions : onend(i))

\* C16: only one speech-recognition session is active at a time: in no state do
\* two sessions created by start() exist that have both been started and not
\* yet ended.
C16_OneSessionAtATime == Cardinality(Live(sessions)) <= 1

\* C17: a final transcript is written to exactly one input: to the chat input
\* if the chat tab was the target of the recording (the tab on which it was
\* started), otherwise to the command input; the other input is left unchanged,
\* isRecording returns to false and the captured text is pushed as one
\* notification.
C17_ResultGoesToOneInput ==
  lastVoice.event = "result" =>
    /\ IF sessions[lastVoice.sid].tab = "groq"
         THEN /\ lastVoice.groqAfter = lastVoice.text
              /\ lastVoice.queryAfter = lastVoice.queryBefore
         ELSE /\ lastVoice.queryAfter = lastVoice.text
              /\ lastVoice.groqAfter = lastVoice.groqBefore
    /\ ~lastVoice.recAfter
    /\ Len(lastVoice.note) = 1
    /\ lastVoice.note[1].type = "system"
    /\ lastVoice.note[1].message = Mic \o "Voice: " \o lastVoice.text

C17_Witness ==
  /\ lastVoice.event = "result"
  /\ sessions[lastVoice.sid].tab = "groq"
  /\ pushed = lastVoice.note
  /\ groqInput = lastVoice.text
  /\ lastVoice.groqBefore = ""
  /\ query = lastVoice.queryBefore
  /\ query # ""
  /\ ~isRecording

\* C18: stop() ends the recording with no result: a session on which stop() was
\* called writes no transcript to either input and pushes no captured-text
\* notification afterwards.
C18_StopYieldsNoResult ==
  \A i \in DOMAIN sessions : ~sessions[i].lateResult

\* C19: start() on a platform without speech recognition creates no session
\* object, leaves isRecording, recognitionRef and both inputs unchanged, and
\* pushes exactly one 'system' notification naming the limitation.
C19_UnsupportedStartChangesNothing ==
  /\ window = {} => (sessions = <<>> /\ recognitionRef = 0 /\ ~isRecording)
  /\ (window = {} /\ lastVoice.event # "none") =>
       /\ lastVoice.event = "unsupported"
       /\ lastVoice.created = 0
       /\ lastVoice.refAfter = lastVoice.refBefore
       /\ ~lastVoice.recAfter
       /\ lastVoice.queryAfter = lastVoice.queryBefore
       /\ lastVoice.groqAfter = lastVoice.groqBefore
       /\ Len(lastVoice.note) = 1
       /\ lastVoice.note[1].type = "system"
       /\ lastVoice.note[1].message = NotSupported

C19_Witness ==
  /\ window = {}
  /\ lastVoice.event = "unsupported"
  /\ pushed = lastVoice.note
  /\ notifications # <<>>
  /\ notifications[1].message = NotSupported
  /\ sessions = <<>>

\* C20: every Listening state is eventually left: a recognition error and the
\* platform's end-of-session event each leave isRecording false, an error
\* additionally pushes one error notification, and under fairness of the
\* platform's end events isRecording never stays true forever.
C20_ListeningIsLeft ==
  /\ [](lastVoice.event \in {"error", "end"} => ~lastVoice.recAfter)
  /\ [](lastVoice.event = "error" =>
          /\ Len(lastVoice.note) = 1
          /\ lastVoice.note[1].message = Cross \o "Voice error: " \o lastVoice.text)
  /\ (isRecording ~> ~isRecording)

C20_Witness ==
  /\ lastVoice.event = "end"
  /\ sessions[lastVoice.sid].state = "ended"
  /\ ~sessions[lastVoice.sid].stopped
  /\ \E n \in Range(notifications) : n.message = Mic \o "Listening..."
  /\ ~isRecording

(***************************************************************************)
(* Notification panel and the 30-second poll.                              *)
(***************************************************************************)
\* mutant: the click toggles the read flag
markReadToggle(feed, id) ==
  [i \in DOMAIN feed |->
     IF feed[i].id = id THEN [feed[i] EXCEPT !.read = ~feed[i].read] ELSE feed[i]]

\* notifications.map(n => n.id === id ? { ...n, read: true } : n)
markRead(feed, id) ==
  [i \in DOMAIN feed |->
     IF feed[i].id = id THEN [feed[i] EXCEPT !.read = TRUE] ELSE feed[i]]

\* notifications.map(n => ({ ...n, read: true }))
markAll(feed) == [i \in DOMAIN feed |-> [feed[i] EXCEPT !.read = TRUE]]

Ids(feed) == {feed[i].id : i \in DOMAIN feed}

\* a click on a notification of the panel
markNotificationRead(id) ==
  /\ isAuthenticated
  /\ id \in Ids(notifications)
  /\ nMarks < MaxMarks
  /\ nMarks' = nMarks + 1
  /\ notifications' = markRead(notifications, id)
  /\ storedNotifs' = Stored(markRead(notifications, id))
  /\ pushed' = <<>>
  /\ lastSet' = <<>>
  /\ UNCHANGED <<nextSeq, nPolls, chatVars, voiceVars>>
  /\ UNCHANGED <<now, mounted, storedAuth, isAuthenticated, query, loading,
                 response, collections, pages, activeTab, submits, timers,
                 contactLoads, dashLoads, hist, loadLog, nLogins, nManual>>

\* the "Mark all as read" button, rendered when the feed is not empty
markAllRead ==
  /\ isAuthenticated
  /\ notifications # <<>>
  /\ nMarks < MaxMarks
  /\ nMarks' = nMarks + 1
  /\ notifications' = markAll(notifications)
  /\ storedNotifs' = Stored(markAll(notifications))
  /\ pushed' = <<>>
  /\ lastSet' = <<>>
  /\ UNCHANGED <<nextSeq, nPolls, chatVars, voiceVars>>
  /\ UNCHANGED <<now, mounted, storedAuth, isAuthenticated, query, loading,
                 response, collections, pages, activeTab, submits, timers,
                 contactLoads, dashLoads, hist, loadLog, nLogins, nManual>>

\* mutant: the interval is set whatever isAuthenticated is
pollRunsAlways(auth) == TRUE

\* useEffect(() => { if (isAuthenticated) { setInterval(...) ... } }, [isAuthenticated])
pollRuns(auth) == auth

\* setInterval(loadNotifications, 30000): the interval exists while
\* isAuthenticated (the effect's cleanup clears it); a run may come at any
\* clock reading
Poll ==
  /\ mounted
  /\ pollRuns(isAuthenticated)
  /\ nPolls < MaxPolls
  /\ nPolls' = nPolls + 1
  /\ notifications' = loadNotifications(notifications, storedNotifs)
  /\ pushed' = <<>>
  /\ lastSet' = <<>>
  /\ UNCHANGED <<storedNotifs, nextSeq, nMarks, chatVars, voiceVars>>
  /\ UNCHANGED <<now, mounted, storedAuth, isAuthenticated, query, loading,
                 response, collections, pages, activeTab, submits, timers,
                 contactLoads, dashLoads, hist, loadLog, nLogins, nManual>>

(***************************************************************************)
(* Specification of the feed: any page load, sign-in through the form,     *)
(* sign-out, the notification panel, the poll, and notifications pushed by *)
(* the sign-in timer and by the Clear History button.                      *)
(***************************************************************************)
InitFeed ==
  /\ InitCommon
  /\ storedNotifs \in {Absent, Stored(OldFeed(2))}
  /\ storedChat = Absent
  /\ window = {"webkitSpeechRecognition"}

NextFeed ==
  \/ Tick
  \/ Mount
  \/ handleAuth(TRUE)
  \/ \E i \in DOMAIN timers : AuthTimer(i)
  \/ SignOut
  \/ \E tab \in {"dashboard", "groq"} : setActiveTab(tab)
  \/ clearChatHistory
  \/ \E id \in Ids(notifications) : markNotificationRead(id)
  \/ markAllRead
  \/ Poll

SpecFeed == InitFeed /\ [][NextFeed]_vars

\* C21: in every reachable feed the notification ids are pairwise distinct.
C21_IdsPairwiseDistinct ==
  \A i, j \in DOMAIN notifications :
    i # j => notifications[i].id # notifications[j].id

\* C22: markRead(id) is idempotent: for every reachable feed and every id,
\* present in the feed or absent, applying markRead(id) twice yields the same
\* feed as applying it once, and a click leaves the persisted feed equal to the
\* in-memory feed it produced.
C22_MarkReadIdempotent ==
  /\ \A id \in Ids(notifications) \cup {0 - 99} :
       markRead(markRead(notifications, id), id) = markRead(notifications, id)
  /\ \A f \in {notifications, storedNotifs.value} :
       \A i \in DOMAIN f : f[i].read => markRead(f, f[i].id)[i] = f[i]

C22_Witness ==
  /\ nMarks = 2
  /\ pushed = <<>>
  /\ storedNotifs = Stored(notifications)
  /\ \E i, j \in DOMAIN notifications :
       notifications[i].read /\ ~notifications[j].read

\* C29: whenever a persisted feed record exists in an authenticated session it
\* equals the in-memory feed; every push, markRead and mark-all-read leaves the
\* persisted feed equal to the in-memory feed; the 30-second poll never changes
\* the feed and runs only while the session is authenticated.
C29_PersistedFeedMatches ==
  /\ []((isAuthenticated /\ storedNotifs.present) => storedNotifs.value = notifications)
  /\ [][(nextSeq' # nextSeq \/ nMarks' # nMarks) =>
          (storedNotifs'.present /\ storedNotifs'.value = notifications')]_vars
  /\ [][nPolls' # nPolls => (isAuthenticated /\ notifications' = notifications)]_vars

C29_Witness ==
  /\ nPolls = 1
  /\ isAuthenticated
  /\ storedNotifs.present
  /\ Len(notifications) = 3
  /\ notifications[1].id >= 0
  /\ notifications[3].read

\* C23: turns leave the persisted chat transcript only through clear(): no step
\* other than clearChatHistory (page load, sign-in, send, reply, refresh)
\* removes or overwrites a turn that was persisted before it.
C23_PersistedTurnsLeaveOnlyByClear ==
  [][nClears' = nClears =>
       Range(storedChat.value) \subseteq Range(storedChat'.value)]_vars

\* C26: after clear(), no turn that was in the in-memory or persisted transcript
\* before the clear is in the in-memory or persisted transcript again.
C26_ClearedTurnsStayGone ==
  wiped \cap (Range(chatHistory) \cup Range(storedChat.value)) = {}

\* C27: isRecording tracks the live session: whenever a session has fired
\* onstart and has not yet produced a result, an error or an end event and has
\* not been stopped, isRecording is true.
C27_RecordingTracksLiveSession ==
  \A i \in DOMAIN sessions :
    (sessions[i].state = "listening" /\ ~sessions[i].stopped) => isRecording

(***************************************************************************)
(* Overlapping refreshes of the aggregator.                                *)
(***************************************************************************)
\* what `payload || []` leaves in a collection
Applied(raw) == IF raw.t \in {"undefined", "null"} THEN Arr(0) ELSE raw

\* C24: collections are replaced wholesale, last writer wins: the step that
\* applies a response leaves the collection equal to exactly that response's
\* payload (the empty list for a missing one), whatever the collection held
\* and whichever refresh was requested first; a collection changes only in a
\* step that applies a response for it.
C24_LastApplierWins ==
  /\ [](\A k \in DOMAIN lastSet :
          collections[lastSet[k].coll] = Applied(lastSet[k].raw))
  /\ [][\A c \in Envelope :
          collections'[c] # collections[c] =>
            \E k \in DOMAIN lastSet' : lastSet'[k].coll = c]_vars

\* the mount's loadDashboardData applies its contact list of two after the
\* Refresh button's loadContacts, requested later, applied a list of six
C24_Witness ==
  /\ lastSet # <<>>
  /\ lastSet[1].by = "loadDashboardData"
  /\ lastSet[1].coll = "contacts"
  /\ lastSet[1].prev = Arr(6)
  /\ nManual = 1
  /\ contactLoads = <<>>
  /\ collections["contacts"] = Arr(2)

(***************************************************************************)
(* Specification of the dispatcher against a backend that answers          *)
(* POST /process with a well-formed body carrying an error field.          *)
(***************************************************************************)
\* { response, agents?, error } as the backend sends it on a negative result
Negative(hasAgents, agents, msg) ==
  [hasAgents |-> hasAgents, agents |-> agents, error |-> msg]

NegativeResponses ==
  {Negative(FALSE, <<>>, "Agent routing failed"),
   Negative(TRUE, <<>>, "Agent routing failed")}

InitRouter ==
  /\ InitCommon
  /\ storedAuth = TRUE
  /\ storedNotifs \in {Absent, Stored(OldFeed(2))}
  /\ storedChat = Absent
  /\ window = {"webkitSpeechRecognition"}

NextRouter ==
  \/ Tick
  \/ Mount
  \/ \E q \in Queries : setQuery(q)
  \/ handleSubmit
  \/ \E i \in DOMAIN submits :
       \E data \in NegativeResponses \cup {Data(TRUE, <<"task">>)} : SubmitResolve(i, data)
  \/ \E i \in DOMAIN submits, kind \in FailKinds : SubmitFail(i, kind)
  \/ \E i \in DOMAIN timers : RefreshTimer(i)
  \/ \E i \in DOMAIN dashLoads :
       \E body \in DownBodies : DashStep(i, body)

SpecRouter == InitRouter /\ [][NextRouter]_vars

\* C25: when POST /process answers a well-formed body carrying an error field,
\* the step that handles it pushes an error notification naming that error,
\* as the step that handles a failed call does.
C25_NegativeResultIsNotified ==
  [][(Len(submits') < Len(submits) /\ response'.error # "") =>
       \E k \in DOMAIN pushed' :
         /\ pushed'[k].type = "system"
         /\ pushed'[k].message = Cross \o "Error: " \o response'.error]_vars

(***************************************************************************)
(* The confirmation of the delayed contact refresh.                        *)
(***************************************************************************)
Confirmation(n) == n.type = "contact" /\ n.message = Check \o "Contacts updated"

\* C28: the 'Contacts updated' confirmation is pushed only by the continuation
\* of a loadContacts call that fetched the contact list and applied it; a
\* loadContacts call whose fetch fails leaves the contact collection unchanged
\* and is followed by no confirmation.
C28_ConfirmationOnlyAfterAppliedFetch ==
  /\ [][(\E k \in DOMAIN pushed' : Confirmation(pushed'[k])) =>
          /\ lastSet # <<>>
          /\ lastSet[1].coll = "contacts"
          /\ lastSet[1].by = "loadContacts"]_vars
  /\ [][(Len(contactLoads') <= Len(contactLoads) /\ lastSet' = <<>>) =>
          collections'["contacts"] = collections["contacts"]]_vars

(***************************************************************************)
(* Specification of the busy flags: commands and chat messages in a        *)
(* session signed in from storage, every request answered in the end.      *)
(***************************************************************************)
\* one of the suggestion buttons the chat view shows while the transcript is
\* empty; unlike the input they are not disabled while groqLoading
suggestionButton(q) ==
  /\ isAuthenticated
  /\ activeTab = "groq"
  /\ chatHistory = <<>>
  /\ q # groqInput
  /\ groqInput' = q
  /\ NoPush
  /\ lastSet' = <<>>
  /\ UNCHANGED <<chatHistory, storedChat, groqLoading, chats, chatLog, cleared,
                 nClears, wiped, voiceVars>>
  /\ UNCHANGED feedVars
  /\ UNCHANGED <<now, mounted, storedAuth, isAuthenticated, query, loading,
                 response, collections, pages, activeTab, submits, timers,
                 contactLoads, dashLoads, hist, loadLog, nLogins, nManual>>

InitBusy ==
  /\ InitCommon
  /\ storedAuth = TRUE
  /\ storedNotifs = Absent
  /\ storedChat = Absent
  /\ window = {"webkitSpeechRecognition"}

SubmitSettles ==
  \E i \in DOMAIN submits :
    \/ SubmitResolve(i, Data(FALSE, <<>>))
    \/ SubmitFail(i, "reject")

ChatSettles ==
  \E i \in DOMAIN chats :
    \/ \E success \in BOOLEAN : ChatResolve(i, success)
    \/ ChatFail(i, "reject")

NextBusy ==
  \/ Mount
  \/ \E q \in Queries : setQuery(q)
  \/ handleSubmit
  \/ SubmitSettles
  \/ setActiveTab("groq")
  \/ \E q \in ChatInputs : suggestionButton(q)
  \/ handleGroqChat
  \/ ChatSettles
  \/ clearChatHistory

\* the request of a submit and of a send resolves or rejects
SpecBusy ==
  /\ InitBusy
  /\ [][NextBusy]_vars
  /\ WF_vars(SubmitSettles)
  /\ WF_vars(ChatSettles)

====
